---------------------------- MODULE Spec2Model ----------------------------
(***************************************************************************)
(* The two signaling servers of video_conference_backend:                  *)
(*   - src/main.rs                      ("main"), and                      *)
(*   - src/signaling/server.rs + src/signaling/handlers.rs ("signaling").  *)
(* One connection task per peer address, one forwarding task per           *)
(* connection, one registry behind one tokio Mutex.  A step of a task runs *)
(* from one .await to the next.                                            *)
(***************************************************************************)
EXTENDS Naturals, Sequences, FiniteSets, TLC

\* ------------------------------------------------------------------ bounds
\* Text frames that parse as a SignalMessage, over all connections, in a run
\* of main.rs and in a run of signaling/server.rs.
MaxMainFrames == 2
MaxSignalingFrames == 3
\* Capacity of a client's outbound mpsc channel.  The code creates it with
\* mpsc::channel(100) (main.rs:175, server.rs:38); the model keeps the
\* channel bounded and scales the capacity down.
QueueCap == 1

\* --------------------------------------------------------------- universe
\* Peer socket addresses; the first two share one IP address.
Addrs == {"10.0.0.1:5001", "10.0.0.1:5002", "10.0.0.2:5001"}

\* uuid::Uuid::new_v4().to_string() of the connection from addr: connections
\* that are alive together have different uuids.
new_v4(addr) == << "uuid", addr >>

\* SocketAddr::ip().to_string()
ip(addr) == IF addr = "10.0.0.2:5001" THEN "10.0.0.2" ELSE "10.0.0.1"

Servers == {"main", "signaling"}

\* Option<T>
None == << >>
Some(x) == << x >>

\* An empty HashMap
EmptyMap == << >>

VARIABLES
    server,        \* which of the two servers this run is
    clients,       \* the registry: HashMap<SocketAddr, ClientState | Client>
    lock,          \* owner of the registry Mutex, or None
    pc,            \* where each connection task is suspended
    signal,        \* the SignalMessage the receive loop parsed last (stamped)
    bsignal,       \* the signal argument of the broadcast / send in progress
    signal_json,   \* the serialized message of the broadcast in progress
    iter,          \* entries the loop of the broadcast has still to visit
    queue,         \* content of each client's outbound channel
    forward_task,  \* state of each connection's forwarding task
    now,           \* Utc::now().timestamp(); the clock stands still in a run
    frames         \* signal frames parsed so far

vars == << server, clients, lock, pc, signal, bsignal, signal_json, iter,
           queue, forward_task, now, frames >>

\* ------------------------------------------------------------ wire values
\* Byte strings are modelled by what the code reads of them: their length
\* and whether the cryptographic library can use them.

\* challenge: Vec<u8>, "c1" or "c-short"
challenge_len(c) == IF c = "c1" THEN 32 ELSE 16

\* public_key: Vec<u8>.  sec1 says that the bytes are the SEC1 encoding of a
\* P-256 curve point, which has 33 (compressed) or 65 (uncompressed) bytes.
\* signature: Vec<u8>.  scalars says that the two halves are valid (r, s)
\* scalars; genuine says that it is the key holder's signature over the
\* bytes the verifier reconstructs.
GenuineSig == [len |-> 64, scalars |-> TRUE, genuine |-> TRUE]
ForgedSig  == [len |-> 64, scalars |-> TRUE, genuine |-> FALSE]
ShortSig   == [len |-> 63, scalars |-> FALSE, genuine |-> FALSE]
SpkiKey    == [id |-> "spki-294", len |-> 294, sec1 |-> FALSE]
P256Key    == [id |-> "p256-65", len |-> 65, sec1 |-> TRUE]
JunkKey    == [id |-> "junk-65", len |-> 65, sec1 |-> FALSE]

\* payload: String, by what it deserializes to.
Garbage == [kind |-> "garbage"]

\* ConnectionVerificationPayload (main.rs); encrypted_data is "none"
\* (absent), "empty" (a required field is empty) or "ok".
CVP(c, enc, key, sig) ==
    [kind |-> "cvp", challenge |-> c, encrypted_data |-> enc,
     public_key |-> key, signature |-> sig]

\* ChallengeResponsePayload (main.rs)
CRP(c) == [kind |-> "crp", challenge |-> c]

\* ChatMessage (main.rs)
ChatPayload == [kind |-> "chat"]

\* free-form payload (ice-candidate, answer, screen-share-*)
FreePayload == [kind |-> "free"]

\* SecureConnectionPayload (models/message.rs)
SCP(key, sig) == [kind |-> "scp", public_key |-> key, signature |-> sig]

\* The offer the end-to-end scenario sends: 32-byte challenge, well-formed
\* encrypted data, a key and a signature of the lengths
\* verify_payload_signature asks for, signed by the key's holder.
GoodOffer == CVP("c1", "ok", SpkiKey, GenuineSig)

OfferPayloads ==
    { Garbage,
      GoodOffer,
      CVP("c1", "none", SpkiKey, GenuineSig),
      CVP("c1", "empty", SpkiKey, GenuineSig),
      CVP("c-short", "ok", SpkiKey, GenuineSig),
      CVP("c1", "ok", P256Key, GenuineSig),
      CVP("c1", "ok", SpkiKey, ShortSig),
      CVP("c1", "ok", SpkiKey, ForgedSig) }

SecurePayloads ==
    { Garbage,
      SCP(P256Key, GenuineSig),
      SCP(P256Key, ForgedSig),
      SCP(P256Key, ShortSig),
      SCP(JunkKey, GenuineSig),
      SCP(SpkiKey, GenuineSig) }

\* A text frame that parses as a SignalMessage.  The sender and timestamp
\* fields are the client's own, whatever it chose to put there.
Wire(type, payload) ==
    [signal_type |-> type, payload |-> payload,
     sender |-> Some("spoofed"), timestamp |-> 0]

MainWire ==
    { Wire("offer-with-challenge", p) : p \in OfferPayloads }
    \cup { Wire("challenge-response", p) : p \in {Garbage, CRP("c1")} }
    \cup { Wire("answer", FreePayload), Wire("ice-candidate", FreePayload) }
    \cup { Wire("chat", p) : p \in {Garbage, ChatPayload} }
    \cup { Wire("screen-share-start", FreePayload),
           Wire("screen-share-stop", FreePayload),
           Wire("secure-offer", SCP(P256Key, GenuineSig)) }

SignalingWire ==
    { Wire("secure-offer", p) : p \in SecurePayloads }
    \cup { Wire("secure-answer", p) : p \in SecurePayloads }
    \cup { Wire("ice-candidate", FreePayload), Wire("chat", ChatPayload) }

WireSignals == IF server = "main" THEN MainWire ELSE SignalingWire


\* ------------------------------------------------------------- HashMap
contains_key(map, k) == k \in DOMAIN map
insert(map, k, v) == [x \in DOMAIN map \cup {k} |-> IF x = k THEN v ELSE map[x]]
remove(map, k) == [x \in DOMAIN map \ {k} |-> map[x]]

\* ------------------------------------------------------------ verifiers
\* p256 VerifyingKey::from_sec1_bytes / EncodedPoint::from_bytes +
\* VerifyingKey::from_encoded_point: Ok only for the SEC1 encoding of a curve
\* point, which is 33 or 65 bytes long.
from_sec1_bytes(public_key) ==
    public_key.len \in {33, 65} /\ public_key.sec1

\* p256 Signature::from_bytes / Signature::from_scalars: Ok only for 64
\* bytes that hold two valid scalars.
signature_from_bytes(signature) ==
    signature.len = 64 /\ signature.scalars

\* main.rs verify_payload_signature, by the step at which it returns.
verify_payload_signature_step(payload) ==
    IF challenge_len(payload.challenge) # 32 THEN "challenge-length"
    ELSE IF payload.public_key.len # 294 THEN "key-length"
    ELSE IF payload.signature.len # 64 THEN "signature-length"
    ELSE IF ~from_sec1_bytes(payload.public_key) THEN "key-parse"
    ELSE IF ~signature_from_bytes(payload.signature) THEN "signature-parse"
    ELSE IF ~payload.signature.genuine THEN "verify"
    ELSE "ok"

verify_payload_signature(payload) ==
    verify_payload_signature_step(payload) = "ok"

\* A verifier that parses the key before it looks at the signature's length.
verify_signature_step_parsing_first(signature, public_key) ==
    IF public_key.len # 65 /\ public_key.len # 33 THEN "key-length"
    ELSE IF ~from_sec1_bytes(public_key) THEN "key-parse"
    ELSE IF signature.len # 64 THEN "signature-length"
    ELSE IF ~signature_from_bytes(signature) THEN "signature-parse"
    ELSE IF ~signature.genuine THEN "verify"
    ELSE "ok"

\* handlers.rs verify_signature, by the step at which it returns.
verify_signature_step(signature, public_key) ==
    IF public_key.len # 65 /\ public_key.len # 33 THEN "key-length"
    ELSE IF signature.len # 64 THEN "signature-length"
    ELSE IF ~from_sec1_bytes(public_key) THEN "key-parse"
    ELSE IF ~signature_from_bytes(signature) THEN "signature-parse"
    ELSE IF ~signature.genuine THEN "verify"
    ELSE "ok"

\* A verifier that stops after the two length checks.
verify_signature_lengths_only(signature, public_key) ==
    public_key.len \in {33, 65} /\ signature.len = 64

verify_signature(signature, public_key) ==
    verify_signature_step(signature, public_key) = "ok"

\* main.rs validate_encrypted_payload, on Some(encrypted_data)
validate_encrypted_payload(encrypted_data) == encrypted_data = "ok"

\* main.rs extract_offer_sender: a placeholder that finds nobody.
extract_offer_sender(payload) == None

\* ------------------------------------------------------------- records
\* A new client that starts with a peer recorded.
ClientState_with_recorded_peer ==
    [connected_peers |-> << "10.0.0.1:5001" >>, is_screen_sharing |-> FALSE,
     challenges |-> EmptyMap]

\* main.rs ClientState, as handle_connection inserts it.
ClientState ==
    [connected_peers |-> << >>, is_screen_sharing |-> FALSE,
     challenges |-> EmptyMap]

\* models/client.rs Client::new
Client_new(id, addr) ==
    [client_id |-> id, address |-> addr, public_key |-> None,
     verified |-> FALSE]

\* A receive loop that leaves the parsed signal as the client sent it.
stamp_keeping_wire_fields(w, addr) == w

\* The receive loop overwrites the sender and the timestamp of a parsed
\* signal: main.rs with the peer's IP, server.rs with the connection's uuid.
stamp(w, addr) ==
    [signal_type |-> w.signal_type, payload |-> w.payload,
     sender |-> IF server = "main" THEN Some(ip(addr)) ELSE new_v4(addr),
     timestamp |-> now]

\* serde_json::to_string(signal), wrapped in Message::Text
to_string(s) == [text |-> s]

\* main.rs handle_offer_with_challenge: what it broadcasts
challenge_response_signal(payload, sender_addr) ==
    [signal_type |-> "challenge-response", payload |-> payload,
     sender |-> Some(ip(sender_addr)), timestamp |-> now]

\* main.rs handle_challenge_response: what it broadcasts
verification_signal(sender_addr) ==
    [signal_type |-> "connection-verified",
     payload |-> [kind |-> "Connection established"],
     sender |-> Some(ip(sender_addr)), timestamp |-> now]

\* main.rs cleanup_client: what it sends to the recorded peers
disconnect_signal(addr) ==
    [signal_type |-> "peer-disconnected", payload |-> [kind |-> addr],
     sender |-> Some(ip(addr)), timestamp |-> now]

\* ------------------------------------------------------------- channels
\* The receiver half lives in the forwarding task and is dropped with it.
closed(addr) == forward_task[addr] = "none"
full(addr) == Len(queue[addr]) >= QueueCap

\* A broadcast that leaves out the test against the sender's address.
is_recipient_without_sender_test(addr, sender_addr) ==
    server = "signaling" => clients[addr].verified

\* Who a broadcast of sender_addr visits and sends to: main.rs
\* broadcast_to_peers every other entry, handlers.rs
\* broadcast_to_verified_peers every other verified entry.
is_recipient(addr, sender_addr) ==
    /\ addr # sender_addr
    /\ server = "signaling" => clients[addr].verified

recipients(sender_addr) ==
    {addr \in DOMAIN clients : is_recipient(addr, sender_addr)}

\* ----------------------------------------------------------------- Init
Init ==
    /\ server \in Servers
    /\ clients = EmptyMap
    /\ lock = None
    /\ pc = [a \in Addrs |-> "idle"]
    /\ signal = [a \in Addrs |-> None]
    /\ bsignal = [a \in Addrs |-> None]
    /\ signal_json = [a \in Addrs |-> None]
    /\ iter = [a \in Addrs |-> {}]
    /\ queue = [a \in Addrs |-> << >>]
    /\ forward_task = [a \in Addrs |-> "none"]
    /\ now = 1
    /\ frames = 0

\* -------------------------------------------------------- handle_connection
\* The listener accepts a connection from addr and the WebSocket handshake
\* succeeds; the task creates its channel (and, in server.rs, its uuid) and
\* waits for the registry lock.
Connect(addr) ==
    /\ pc[addr] \in {"idle", "failed"}
    /\ pc' = [pc EXCEPT ![addr] = "register"]
    /\ signal' = [signal EXCEPT ![addr] = None]
    /\ UNCHANGED << server, clients, lock, bsignal, signal_json, iter, queue,
                    forward_task, now, frames >>

\* A registration that does not wait for the registry lock.
Register_without_lock(addr) ==
    /\ pc[addr] = "register"
    /\ clients' = insert(clients, addr,
                         IF server = "main" THEN ClientState
                         ELSE Client_new(new_v4(addr), addr))
    /\ queue' = [queue EXCEPT ![addr] = << >>]
    /\ forward_task' = [forward_task EXCEPT ![addr] = "running"]
    /\ pc' = [pc EXCEPT ![addr] = "recv"]
    /\ UNCHANGED << server, lock, signal, bsignal, signal_json,
                    iter, now, frames >>

\* clients_map.insert(addr, ...) under the lock, then the forwarding task is
\* spawned on the new channel.  The entry insert() replaces, if any, held
\* the only sender of the old channel.
Register(addr) ==
    /\ pc[addr] = "register"
    /\ lock = None
    /\ clients' = insert(clients, addr,
                         IF server = "main" THEN ClientState
                         ELSE Client_new(new_v4(addr), addr))
    /\ queue' = [queue EXCEPT ![addr] = << >>]
    /\ forward_task' = [forward_task EXCEPT ![addr] = "running"]
    /\ pc' = [pc EXCEPT ![addr] = "recv"]
    /\ UNCHANGED << server, lock, signal, bsignal, signal_json,
                    iter, now, frames >>

\* Where the handler of a stamped signal first suspends in main.rs
\* ("recv": it returned without suspending).
main_dispatch(s) ==
    CASE s.signal_type = "offer-with-challenge" ->
            IF /\ s.payload.kind = "cvp"
               /\ s.payload.encrypted_data # "none"
               /\ validate_encrypted_payload(s.payload.encrypted_data)
               /\ verify_payload_signature(s.payload)
            THEN "owc_lock" ELSE "recv"
      [] s.signal_type = "challenge-response" ->
            IF s.payload.kind = "crp" THEN "cr_lock" ELSE "recv"
      [] s.signal_type = "answer" -> "answer_lock"
      [] s.signal_type = "ice-candidate" -> "bcast_lock"
      [] s.signal_type = "chat" ->
            IF s.payload.kind = "chat" THEN "bcast_lock" ELSE "recv"
      [] s.signal_type \in {"screen-share-start", "screen-share-stop"} ->
            "ss_lock"
      [] OTHER -> "recv"

\* The same for server.rs ("failed": the handler's Err leaves
\* handle_connection through the ? operator).
signaling_dispatch(s) ==
    CASE s.signal_type \in {"secure-offer", "secure-answer"} ->
            IF s.payload.kind # "scp" THEN "failed"
            ELSE IF ~verify_signature(s.payload.signature,
                                      s.payload.public_key) THEN "recv"
            ELSE IF s.signal_type = "secure-offer" THEN "so_lock"
            ELSE "sa_lock"
      [] s.signal_type = "ice-candidate" -> "bcast_lock"
      [] OTHER -> "recv"

dispatch(s) ==
    IF server = "main" THEN main_dispatch(s) ELSE signaling_dispatch(s)

MaxFrames == IF server = "main" THEN MaxMainFrames ELSE MaxSignalingFrames

\* ws_receiver.next() yields a text frame that parses as a SignalMessage.
ReceiveSignal(addr) ==
    /\ pc[addr] = "recv"
    /\ frames < MaxFrames
    /\ \E w \in WireSignals :
         LET s == stamp(w, addr) IN
           /\ signal' = [signal EXCEPT ![addr] = Some(s)]
           /\ pc' = [pc EXCEPT ![addr] = dispatch(s)]
           /\ bsignal' = [bsignal EXCEPT ![addr] =
                             IF dispatch(s) = "bcast_lock" THEN Some(s) ELSE @]
    /\ frames' = frames + 1
    /\ UNCHANGED << server, clients, lock, signal_json, iter,
                    queue, forward_task, now >>

\* ws_receiver.next() yields a frame that is not text, or text that is no
\* SignalMessage: the loop goes round.
ReceiveIgnored(addr) ==
    /\ pc[addr] = "recv"
    /\ UNCHANGED vars

\* forward_task.abort(), then cleanup_client waits for the lock.
leave_loop(addr) ==
    /\ forward_task' = [forward_task EXCEPT ![addr] = "none"]
    /\ queue' = [queue EXCEPT ![addr] = << >>]
    /\ signal' = [signal EXCEPT ![addr] = None]
    /\ pc' = [pc EXCEPT ![addr] = "cleanup_lock"]

\* ws_receiver.next() yields None: the peer closed the stream.
StreamEnd(addr) ==
    /\ pc[addr] = "recv"
    /\ leave_loop(addr)
    /\ UNCHANGED << server, clients, lock, bsignal, signal_json, iter, now,
                    frames >>

\* ws_receiver.next() yields Some(Err(_)).  main.rs: `message?` returns from
\* handle_connection at once; server.rs: the `while let Some(Ok(..))`
\* pattern fails and the loop ends.
TransportError(addr) ==
    /\ pc[addr] = "recv"
    /\ IF server = "main"
       THEN /\ pc' = [pc EXCEPT ![addr] = "failed"]
            /\ UNCHANGED << forward_task, queue, signal >>
       ELSE leave_loop(addr)
    /\ UNCHANGED << server, clients, lock, bsignal, signal_json, iter, now,
                    frames >>

\* ------------------------------------------------- under the registry lock
\* Each operator below is what one task does from the moment clients.lock()
\* is granted to its next suspension.  start_broadcast is the call of
\* broadcast_to_peers / broadcast_to_verified_peers: the task waits for the
\* lock again.
start_broadcast(addr, s) ==
    /\ pc' = [pc EXCEPT ![addr] = "bcast_lock"]
    /\ bsignal' = [bsignal EXCEPT ![addr] = Some(s)]

return_to_loop(addr) ==
    /\ pc' = [pc EXCEPT ![addr] = "recv"]
    /\ bsignal' = [bsignal EXCEPT ![addr] = None]

\* main.rs handle_offer_with_challenge, from "Store the challenge"
handle_offer_with_challenge(sender_addr) ==
    LET payload == signal[sender_addr][1].payload IN
    /\ clients' =
         IF contains_key(clients, sender_addr)
         THEN [clients EXCEPT ![sender_addr].challenges =
                  insert(@, payload.challenge, FALSE)]
         ELSE clients
    /\ start_broadcast(sender_addr,
                       challenge_response_signal(payload, sender_addr))
    /\ UNCHANGED << lock, signal_json, iter, queue >>

\* main.rs handle_challenge_response, from "Verify the challenge response"
challenge_is_valid(sender_addr, challenge) ==
    /\ contains_key(clients, sender_addr)
    /\ contains_key(clients[sender_addr].challenges, challenge)

handle_challenge_response(sender_addr) ==
    LET payload == signal[sender_addr][1].payload
        is_valid == challenge_is_valid(sender_addr, payload.challenge)
    IN
    /\ clients' =
         IF is_valid
         THEN [clients EXCEPT ![sender_addr].challenges =
                  insert(@, payload.challenge, TRUE)]
         ELSE clients
    /\ IF is_valid
       THEN start_broadcast(sender_addr, verification_signal(sender_addr))
       ELSE return_to_loop(sender_addr)
    /\ UNCHANGED << lock, signal_json, iter, queue >>

\* main.rs handle_answer: the lock is held across the send to the offer's
\* sender, if extract_offer_sender finds one that is registered.
handle_answer(sender_addr) ==
    LET offer_sender == extract_offer_sender(signal[sender_addr][1].payload)
        found == /\ offer_sender # None
                 /\ contains_key(clients, offer_sender[1])
    IN
    /\ IF found
       THEN /\ lock' = Some(sender_addr)
            /\ pc' = [pc EXCEPT ![sender_addr] = "answer_send"]
            /\ bsignal' = [bsignal EXCEPT ![sender_addr] = signal[sender_addr]]
            /\ signal_json' = [signal_json EXCEPT ![sender_addr] =
                                  Some(to_string(signal[sender_addr][1]))]
            /\ iter' = [iter EXCEPT ![sender_addr] = {offer_sender[1]}]
       ELSE /\ return_to_loop(sender_addr)
            /\ UNCHANGED << lock, signal_json, iter >>
    /\ UNCHANGED << clients, queue >>

\* main.rs handle_screen_share: the guard stays alive across the call of
\* broadcast_to_peers, which asks for the same lock.
handle_screen_share(sender_addr) ==
    IF contains_key(clients, sender_addr)
    THEN /\ clients' = [clients EXCEPT ![sender_addr].is_screen_sharing =
                           signal[sender_addr][1].signal_type
                               = "screen-share-start"]
         /\ lock' = Some(sender_addr)
         /\ start_broadcast(sender_addr, signal[sender_addr][1])
         /\ UNCHANGED << signal_json, iter, queue >>
    ELSE /\ return_to_loop(sender_addr)
         /\ UNCHANGED << clients, lock, signal_json, iter, queue >>

\* handlers.rs handle_secure_offer, after the signature check
handle_secure_offer(sender_addr) ==
    /\ clients' =
         IF contains_key(clients, sender_addr)
         THEN [clients EXCEPT
                 ![sender_addr].public_key =
                     Some(signal[sender_addr][1].payload.public_key),
                 ![sender_addr].verified = TRUE]
         ELSE clients
    /\ start_broadcast(sender_addr, signal[sender_addr][1])
    /\ UNCHANGED << lock, signal_json, iter, queue >>

\* handlers.rs handle_secure_answer, after the signature check
handle_secure_answer(sender_addr) ==
    /\ clients' =
         IF contains_key(clients, sender_addr)
         THEN [clients EXCEPT ![sender_addr].verified = TRUE]
         ELSE clients
    /\ start_broadcast(sender_addr, signal[sender_addr][1])
    /\ UNCHANGED << lock, signal_json, iter, queue >>

\* A broadcast the handler does not wait for: the task goes back to its
\* receive loop while the entries are still to be sent to.
broadcast_detached(sender_addr) ==
    /\ pc' = [pc EXCEPT ![sender_addr] = "recv"]
    /\ signal_json' = [signal_json EXCEPT ![sender_addr] =
                          Some(to_string(bsignal[sender_addr][1]))]
    /\ iter' = [iter EXCEPT ![sender_addr] = recipients(sender_addr)]
    /\ UNCHANGED << lock, bsignal, clients, queue >>

\* main.rs broadcast_to_peers / handlers.rs broadcast_to_verified_peers:
\* lock, serialize once, start the loop over the map.  With nobody to send
\* to, the function returns and the handler with it.
broadcast(sender_addr) ==
    LET to == recipients(sender_addr) IN
    /\ IF to = {}
       THEN /\ return_to_loop(sender_addr)
            /\ UNCHANGED << lock, signal_json, iter >>
       ELSE /\ lock' = Some(sender_addr)
            /\ signal_json' = [signal_json EXCEPT ![sender_addr] =
                                  Some(to_string(bsignal[sender_addr][1]))]
            /\ iter' = [iter EXCEPT ![sender_addr] = to]
            /\ pc' = [pc EXCEPT ![sender_addr] = "bcast_send"]
            /\ UNCHANGED bsignal
    /\ UNCHANGED << clients, queue >>

\* Range of a Vec
elements(vec) == {vec[i] : i \in 1..Len(vec)}

\* A cleanup that notifies every other registered client.
cleanup_client_notifying_all(addr) ==
    LET peers == IF server = "main" THEN DOMAIN clients \ {addr} ELSE {} IN
    /\ clients' = remove(clients, addr)
    /\ IF peers = {}
       THEN /\ pc' = [pc EXCEPT ![addr] = "idle"]
            /\ UNCHANGED << lock, signal_json, iter >>
       ELSE /\ lock' = Some(addr)
            /\ pc' = [pc EXCEPT ![addr] = "cleanup_send"]
            /\ signal_json' = [signal_json EXCEPT ![addr] =
                                  Some(to_string(disconnect_signal(addr)))]
            /\ iter' = [iter EXCEPT ![addr] = peers]
    /\ UNCHANGED << bsignal, queue >>

\* main.rs cleanup_client (the lock is held across the sends to the recorded
\* peers) / server.rs cleanup_client.
cleanup_client(addr) ==
    LET peers == IF server = "main" /\ contains_key(clients, addr)
                 THEN elements(clients[addr].connected_peers)
                          \cap (DOMAIN clients \ {addr})
                 ELSE {}
    IN
    /\ clients' = remove(clients, addr)
    /\ IF peers = {}
       THEN /\ pc' = [pc EXCEPT ![addr] = "idle"]
            /\ UNCHANGED << lock, signal_json, iter >>
       ELSE /\ lock' = Some(addr)
            /\ pc' = [pc EXCEPT ![addr] = "cleanup_send"]
            /\ signal_json' = [signal_json EXCEPT ![addr] =
                                  Some(to_string(disconnect_signal(addr)))]
            /\ iter' = [iter EXCEPT ![addr] = peers]
    /\ UNCHANGED << bsignal, queue >>

\* clients.lock().await is granted to the task of addr.
AcquireLock(addr) ==
    /\ lock = None
    /\ CASE pc[addr] = "owc_lock" -> handle_offer_with_challenge(addr)
         [] pc[addr] = "cr_lock" -> handle_challenge_response(addr)
         [] pc[addr] = "answer_lock" -> handle_answer(addr)
         [] pc[addr] = "ss_lock" -> handle_screen_share(addr)
         [] pc[addr] = "so_lock" -> handle_secure_offer(addr)
         [] pc[addr] = "sa_lock" -> handle_secure_answer(addr)
         [] pc[addr] = "bcast_lock" -> broadcast(addr)
         [] pc[addr] = "cleanup_lock" -> cleanup_client(addr)
         [] OTHER -> FALSE
    /\ UNCHANGED << server, signal, forward_task, now,
                    frames >>

\* A loop that gives up at the first send that fails on a closed channel.
Send_aborting_on_closed(addr) ==
    /\ pc[addr] \in {"bcast_send", "answer_send", "cleanup_send"}
    /\ \E to \in iter[addr] :
         /\ closed(to) \/ ~full(to)
         /\ queue' = IF closed(to) THEN queue
                     ELSE [queue EXCEPT ![to] =
                              Append(@, signal_json[addr][1])]
         /\ iter' = [iter EXCEPT ![addr] =
                        IF closed(to) THEN {} ELSE @ \ {to}]
         /\ IF iter[addr] = {to} \/ closed(to)
            THEN /\ lock' = None
                 /\ signal_json' = [signal_json EXCEPT ![addr] = None]
                 /\ bsignal' = [bsignal EXCEPT ![addr] = None]
                 /\ pc' = [pc EXCEPT ![addr] =
                              IF pc[addr] = "cleanup_send" THEN "idle"
                              ELSE "recv"]
            ELSE UNCHANGED << lock, signal_json, bsignal, pc >>
    /\ UNCHANGED << server, clients, signal, forward_task, now,
                    frames >>

\* client.sender.send(Message::Text(json.clone())).await inside a loop that
\* holds the lock: it fails at once on a closed channel (the error is
\* logged or dropped), waits while the channel is full, and enqueues
\* otherwise.  After the last entry the function returns and drops the
\* guard.
Send(addr) ==
    /\ pc[addr] \in {"bcast_send", "answer_send", "cleanup_send"}
    /\ \E to \in iter[addr] :
         /\ closed(to) \/ ~full(to)
         /\ queue' = IF closed(to) THEN queue
                     ELSE [queue EXCEPT ![to] =
                              Append(@, signal_json[addr][1])]
         /\ iter' = [iter EXCEPT ![addr] = @ \ {to}]
         /\ IF iter[addr] = {to}
            THEN /\ lock' = None
                 /\ signal_json' = [signal_json EXCEPT ![addr] = None]
                 /\ bsignal' = [bsignal EXCEPT ![addr] = None]
                 /\ pc' = [pc EXCEPT ![addr] =
                              IF pc[addr] = "cleanup_send" THEN "idle"
                              ELSE "recv"]
            ELSE UNCHANGED << lock, signal_json, bsignal, pc >>
    /\ UNCHANGED << server, clients, signal, forward_task, now,
                    frames >>

\* ----------------------------------------------------------- forward task
\* rx.recv() yields a message and ws_sender.send(message) writes it.  The
\* message leaves the queue when it is written.
Forward(addr) ==
    /\ forward_task[addr] = "running"
    /\ queue[addr] # << >>
    /\ queue' = [queue EXCEPT ![addr] = Tail(@)]
    /\ UNCHANGED << server, clients, lock, pc, signal, bsignal,
                    signal_json, iter, forward_task, now, frames >>

\* ws_sender.send(message) fails: the task logs, breaks and drops rx.
ForwardError(addr) ==
    /\ forward_task[addr] = "running"
    /\ queue[addr] # << >>
    /\ forward_task' = [forward_task EXCEPT ![addr] = "none"]
    /\ queue' = [queue EXCEPT ![addr] = << >>]
    /\ UNCHANGED << server, clients, lock, pc, signal, bsignal,
                    signal_json, iter, now, frames >>

\* The peer stops reading its socket: the write of the message at the head
\* of the queue stays pending and the task takes no more from rx.
Stall(addr) ==
    /\ forward_task[addr] = "running"
    /\ queue[addr] # << >>
    /\ forward_task' = [forward_task EXCEPT ![addr] = "stalled"]
    /\ UNCHANGED << server, clients, lock, pc, signal, bsignal,
                    signal_json, iter, queue, now, frames >>

\* The peer reads again and the pending write completes.
Resume(addr) ==
    /\ forward_task[addr] = "stalled"
    /\ forward_task' = [forward_task EXCEPT ![addr] = "running"]
    /\ UNCHANGED << server, clients, lock, pc, signal, bsignal,
                    signal_json, iter, queue, now, frames >>

\* ------------------------------------------------------------------- Next
\* A step of a task of the server.
TaskStep(addr) ==
    \/ Register(addr)
    \/ AcquireLock(addr)
    \/ Send(addr)

\* A step the peer or its network decides.
PeerStep(addr) ==
    \/ Connect(addr)
    \/ ReceiveSignal(addr)
    \/ ReceiveIgnored(addr)
    \/ StreamEnd(addr)
    \/ TransportError(addr)
    \/ Forward(addr)
    \/ ForwardError(addr)
    \/ Stall(addr)
    \/ Resume(addr)

Next ==
    \E addr \in Addrs : TaskStep(addr) \/ PeerStep(addr)

Spec == Init /\ [][Next]_vars

\* ================================================================ claims
\* handle_connection has returned, or has not been called, for addr.
returned(addr) == pc[addr] \in {"idle", "failed"}

\* The signal the loop of addr parsed last, if it has the given type and
\* payload.
last_signal_is(addr, type, payload) ==
    /\ signal[addr] # None
    /\ signal[addr][1].signal_type = type
    /\ signal[addr][1].payload = payload

\* C1: whichever way the receive loop of a registered connection ends
\* (stream end, transport error, handler error), once handle_connection has
\* returned cleanup_client has run: the forwarding task is stopped and the
\* registry holds no entry for the connection's address.
C1_CleanupOnEveryExit ==
    \A a \in Addrs :
        returned(a) => ~contains_key(clients, a) /\ forward_task[a] = "none"

\* The signal types whose handler parses the payload into a sub-message.
PayloadParsingTypes ==
    IF server = "main"
    THEN {"offer-with-challenge", "challenge-response", "chat"}
    ELSE {"secure-offer", "secure-answer"}

\* C2: a signal of a recognized type whose payload does not parse into the
\* expected sub-message is dropped and the connection stays Active: the
\* task is back in its receive loop, its registry entry is still there and
\* nothing was enqueued.
C2_MalformedPayloadIsDropped ==
    [][\A a \in Addrs :
          ( /\ pc[a] = "recv"
            /\ frames' = frames + 1
            /\ signal'[a] # None
            /\ signal'[a][1].signal_type \in PayloadParsingTypes
            /\ signal'[a][1].payload = Garbage )
          => ( /\ pc'[a] = "recv"
               /\ contains_key(clients', a)
               /\ queue' = queue )]_vars

\* C3: no task holds the registry lock while it is suspended on a send into
\* a client's outbound queue.
C3_NoLockAcrossSend ==
    \A a \in Addrs :
        pc[a] \in {"bcast_send", "answer_send", "cleanup_send"}
            => lock # Some(a)

\* A message of addr is being handled, or addr waits to be registered.
busy(addr) ==
    pc[addr] \in {"register", "owc_lock", "cr_lock", "answer_lock", "ss_lock",
                  "so_lock", "sa_lock", "bcast_lock", "bcast_send",
                  "answer_send"}

\* A task waits for the lock it holds itself (handle_screen_share).
self_deadlock == \E a \in Addrs : lock = Some(a) /\ pc[a] = "bcast_lock"

\* What the server can do by itself: a step of a connection task, or a
\* forwarding task whose peer reads writing a message.
ServerStep == \E a \in Addrs : TaskStep(a) \/ Forward(a)

\* C4: while one client's forwarding task is stalled, the messages of every
\* other client are still processed and new connections still registered:
\* whenever another client's handler or registration is pending, the server
\* can take a step without the stalled peer (or anybody else) acting.  (The
\* lock that handle_screen_share never returns is left aside.)
C4_StalledPeerBlocksNobody ==
    \A b \in Addrs :
        ( /\ busy(b)
          /\ \E s \in Addrs \ {b} : forward_task[s] = "stalled"
          /\ ~self_deadlock )
        => ENABLED ServerStep

\* A signature check has succeeded for the client of addr: server.rs keeps
\* the verified flag; main.rs stores a challenge after each successful check.
signature_checked(addr) ==
    IF server = "main" THEN DOMAIN clients[addr].challenges # {}
    ELSE clients[addr].verified

Queued(addr) == {queue[addr][i] : i \in 1..Len(queue[addr])}

\* C6: an ice-candidate is relayed only to clients for which a signature
\* check has succeeded: no relayed ice-candidate sits in the queue of a
\* registered client that is not verified.
C6_IceCandidateOnlyToVerified ==
    \A r \in DOMAIN clients :
        \A m \in Queued(r) :
            m.text.signal_type = "ice-candidate" => signature_checked(r)

\* C7: during a broadcast of sender S nothing is enqueued into S's own
\* queue; every entry the loop visits is another client, eligible for the
\* broadcast, and is enqueued (unless its channel is closed) the one
\* serialization of the broadcast's signal, which does not change while the
\* loop runs; and the loop ends only when it has visited them all.
C7_BroadcastExcludesSenderSameBytes ==
    [][\A S \in Addrs :
          pc[S] = "bcast_send" =>
            /\ S \notin iter[S]
            /\ Len(queue'[S]) <= Len(queue[S])
            /\ \A r \in Addrs :
                 Len(queue'[r]) > Len(queue[r]) =>
                   /\ r \in iter[S] \ iter'[S]
                   /\ queue'[r] = Append(queue[r], to_string(bsignal[S][1]))
            /\ \A r \in iter[S] \ iter'[S] :
                 /\ r # S
                 /\ server = "signaling" => clients[r].verified
                 /\ closed(r) \/
                      queue'[r] = Append(queue[r], to_string(bsignal[S][1]))
            /\ pc'[S] = "bcast_send" => bsignal'[S] = bsignal[S]
            /\ pc'[S] # "bcast_send" => iter'[S] = {}]_vars

\* C7 witness: in server.rs a sender is back in its loop after a broadcast
\* that put the same message into the queues of two other clients and
\* nothing into its own.
C7_Witness ==
    /\ server = "signaling"
    /\ \E S \in Addrs : \E r1, r2 \in Addrs \ {S} :
         /\ r1 # r2
         /\ pc[S] = "recv"
         /\ signal[S] # None
         /\ queue[r1] = << to_string(signal[S][1]) >>
         /\ queue[r2] = queue[r1]
         /\ queue[S] = << >>

\* C8: in server.rs every registered client that is verified has a public
\* key.
C8_VerifiedHasPublicKey ==
    server = "signaling" =>
        \A a \in DOMAIN clients :
            clients[a].verified => clients[a].public_key # None

\* C9: after the offer-with-challenge of client A carrying c1 (the offer of
\* the end-to-end scenario) has been handled, the challenge-response of
\* another client B with challenge c1 marks c1 resolved in A's entry and
\* starts the broadcast of connection-verified.
C9_PeerResponseResolvesChallenge ==
    [][\A A \in Addrs : \A B \in Addrs \ {A} :
          ( /\ pc[A] = "recv"
            /\ last_signal_is(A, "offer-with-challenge", GoodOffer)
            /\ pc[B] = "cr_lock"
            /\ last_signal_is(B, "challenge-response", CRP("c1"))
            /\ pc'[B] # "cr_lock" )
          => ( /\ contains_key(clients', A)
               /\ contains_key(clients'[A].challenges, "c1")
               /\ clients'[A].challenges["c1"]
               /\ pc'[B] = "bcast_lock"
               /\ bsignal'[B][1].signal_type = "connection-verified" )]_vars

\* C10: main.rs accepts the offer-with-challenge of the end-to-end scenario
\* (well-formed payload, 32-byte challenge c1, 294-byte key, 64-byte
\* signature made by the key's holder): once its handler has returned, c1
\* is stored in the sender's challenge map.
C10_GoodOfferIsAccepted ==
    \A a \in Addrs :
        ( /\ server = "main"
          /\ pc[a] = "recv"
          /\ last_signal_is(a, "offer-with-challenge", GoodOffer) )
        => ( /\ contains_key(clients, a)
             /\ contains_key(clients[a].challenges, "c1") )

\* The check the handler of a stamped signal runs on its parsed payload
\* fails: verify_signature for secure-offer and secure-answer,
\* verify_payload_signature for offer-with-challenge.
verification_fails(s) ==
    IF server = "signaling"
    THEN /\ s.signal_type \in {"secure-offer", "secure-answer"}
         /\ s.payload.kind = "scp"
         /\ verify_signature_step(s.payload.signature,
                                  s.payload.public_key) # "ok"
    ELSE /\ s.signal_type = "offer-with-challenge"
         /\ s.payload.kind = "cvp"
         /\ s.payload.encrypted_data = "ok"
         /\ verify_payload_signature_step(s.payload) # "ok"

\* C11: when the signature check of a secure-offer, secure-answer or
\* offer-with-challenge fails, the handler returns to the receive loop at
\* once: nothing is enqueued to any client, no broadcast is started, the
\* registry (the sender's entry included) is unchanged and the sender is
\* still registered.
C11_FailedVerificationChangesNothing ==
    [][\A a \in Addrs :
          ( /\ pc[a] = "recv"
            /\ frames' = frames + 1
            /\ signal'[a] # None
            /\ verification_fails(signal'[a][1])
            /\ pc'[a] # "recv" \/ signal'[a] # signal[a] )
          => ( /\ pc'[a] = "recv"
               /\ contains_key(clients', a)
               /\ clients' = clients
               /\ queue' = queue
               /\ bsignal' = bsignal
               /\ iter' = iter )]_vars

\* C11 witness: in server.rs a client whose secure-offer carried a forged
\* signature is back in its loop, registered and unverified, and the
\* verified client beside it has been sent nothing.
C11_Witness ==
    /\ server = "signaling"
    /\ \E a \in Addrs : \E b \in Addrs \ {a} :
         /\ pc[a] = "recv"
         /\ last_signal_is(a, "secure-offer", SCP(P256Key, ForgedSig))
         /\ contains_key(clients, a) /\ ~clients[a].verified
         /\ contains_key(clients, b) /\ clients[b].verified
         /\ queue[b] = << >> /\ forward_task[b] = "running"

\* --------------------------------------------------- the verifiers alone
\* One connection that sends signals whose keys, signatures and challenges
\* have lengths around the ones the verifiers ask for, with bytes the
\* library can or cannot use.
MaxProbeFrames == 2
ProbeAddrs == {"10.0.0.1:5001"}
KeyLengths == {0, 32, 33, 64, 65, 66, 294}
SignatureLengths == {0, 63, 64, 65}
ChallengeValues == {"c1", "c-short"}

ProbeKeys ==
    {[id |-> "probe", len |-> k, sec1 |-> b] :
        k \in KeyLengths, b \in BOOLEAN}

ProbeSignatures ==
    {[len |-> n, scalars |-> b, genuine |-> g] :
        n \in SignatureLengths, b \in BOOLEAN, g \in BOOLEAN}

ProbeSignals ==
    IF server = "main"
    THEN { Wire("offer-with-challenge", CVP(c, "ok", key, sig)) :
              c \in ChallengeValues, key \in ProbeKeys,
              sig \in ProbeSignatures }
    ELSE { Wire(type, SCP(key, sig)) :
              type \in {"secure-offer", "secure-answer"},
              key \in ProbeKeys, sig \in ProbeSignatures }

\* ws_receiver.next() yields one of these signals.
ReceiveProbe(addr) ==
    /\ pc[addr] = "recv"
    /\ frames < MaxProbeFrames
    /\ \E w \in ProbeSignals :
         LET s == stamp(w, addr) IN
           /\ signal' = [signal EXCEPT ![addr] = Some(s)]
           /\ pc' = [pc EXCEPT ![addr] = dispatch(s)]
           /\ bsignal' = [bsignal EXCEPT ![addr] =
                             IF dispatch(s) = "bcast_lock" THEN Some(s) ELSE @]
    /\ frames' = frames + 1
    /\ UNCHANGED << server, clients, lock, signal_json, iter,
                    queue, forward_task, now >>

NextVerifier ==
    \E addr \in ProbeAddrs :
        \/ Connect(addr)
        \/ Register(addr)
        \/ ReceiveProbe(addr)
        \/ AcquireLock(addr)
        \/ StreamEnd(addr)

SpecVerifier == Init /\ [][NextVerifier]_vars

\* The steps at which a verifier returns false on a length alone.
LengthSteps == {"challenge-length", "key-length", "signature-length"}

\* The lengths of the payload are outside the set its verifier accepts:
\* verify_signature key 33 or 65 and signature 64; verify_payload_signature
\* challenge 32, key 294, signature 64.
rejected_lengths(p) ==
    IF server = "signaling"
    THEN p.public_key.len \notin {33, 65} \/ p.signature.len # 64
    ELSE \/ challenge_len(p.challenge) # 32
         \/ p.public_key.len # 294
         \/ p.signature.len # 64

\* The step at which the verifier returned for the signal addr handled last.
verifier_returned_at(addr) ==
    LET p == signal[addr][1].payload IN
    IF server = "signaling"
    THEN verify_signature_step(p.signature, p.public_key)
    ELSE verify_payload_signature_step(p)

\* C12: for every key and signature (and, in main.rs, challenge) whose
\* lengths are outside the set the verifier accepts, whatever the bytes
\* hold, the verifier returns false at one of its length checks, before it
\* parses the key or the signature or verifies anything, and the handler
\* goes back to the loop.
C12_LengthChecksPrecedeCrypto ==
    \A a \in Addrs :
        ( /\ signal[a] # None
          /\ signal[a][1].payload.kind \in {"scp", "cvp"}
          /\ rejected_lengths(signal[a][1].payload) )
        => ( /\ verifier_returned_at(a) \in LengthSteps
             /\ pc[a] = "recv" )

\* C12 witness: a connection of server.rs is back in its loop after a
\* secure-offer with a usable 65-byte key whose 63-byte signature the
\* verifier turned down at the length check.
C12_Witness ==
    \E a \in Addrs :
        /\ pc[a] = "recv"
        /\ signal[a] # None
        /\ signal[a][1].signal_type = "secure-offer"
        /\ signal[a][1].payload.public_key.len = 65
        /\ signal[a][1].payload.public_key.sec1
        /\ signal[a][1].payload.signature.len = 63
        /\ verifier_returned_at(a) = "signature-length"

\* The sender identity the server gives the signals of the connection of
\* addr: main.rs the peer's IP address, server.rs the connection's uuid.
assigned_identity(addr) ==
    IF server = "main" THEN Some(ip(addr)) ELSE new_v4(addr)

\* C13: every envelope a task enqueues to a client, as the relay of a
\* signal received on its connection, carries the sender identity the
\* server assigned to that connection and the server's timestamp, not the
\* sender and timestamp the client wrote into the wire message.
C13_RelayCarriesServerIdentity ==
    [][\A S \in Addrs : \A r \in Addrs :
          ( /\ pc[S] \in {"bcast_send", "answer_send", "cleanup_send"}
            /\ iter'[S] # iter[S]
            /\ Len(queue'[r]) > Len(queue[r]) )
          => LET m == queue'[r][Len(queue'[r])].text IN
             /\ m.sender = assigned_identity(S)
             /\ m.timestamp = now
             /\ m.sender # Wire(m.signal_type, m.payload).sender
             /\ m.timestamp # Wire(m.signal_type, m.payload).timestamp]_vars

\* C13 witness: the queue of a client holds the relay of an ice-candidate
\* of another connection, which is back in its loop, with that
\* connection's assigned identity in place of the one it sent.
C13_Witness ==
    \E S \in Addrs : \E r \in Addrs \ {S} :
        /\ pc[S] = "recv"
        /\ last_signal_is(S, "ice-candidate", FreePayload)
        /\ queue[r] # << >>
        /\ queue[r][1] = to_string(signal[S][1])
        /\ queue[r][1].text.sender = assigned_identity(S)
        /\ Wire("ice-candidate", FreePayload) \in WireSignals

\* What the handler of the signal addr parsed last may enqueue: the signal
\* itself, or the envelope handle_offer_with_challenge or
\* handle_challenge_response builds from it.
relays(addr) ==
    IF signal[addr] = None THEN {}
    ELSE { to_string(signal[addr][1]),
           to_string(challenge_response_signal(signal[addr][1].payload,
                                               addr)),
           to_string(verification_signal(addr)) }

recorded_peers(addr) ==
    IF contains_key(clients, addr)
    THEN elements(clients[addr].connected_peers)
            \cap (DOMAIN clients \ {addr})
    ELSE {}

\* C15: when cleanup_client(addr) runs in main.rs the entry of addr is
\* removed and the clients to notify are exactly the recorded peers that
\* are still registered; each is enqueued peer-disconnected naming addr
\* once (it leaves the set of those to notify as it is sent to), and a
\* peer-disconnected signal is enqueued to nobody else and by nobody else.
C15_CleanupNotifiesRecordedPeers ==
    [][server = "main" =>
         /\ \A a \in Addrs :
               (pc[a] = "cleanup_lock" /\ pc'[a] # "cleanup_lock") =>
                 /\ ~contains_key(clients', a)
                 /\ iter'[a] = recorded_peers(a)
                 /\ IF recorded_peers(a) = {}
                    THEN pc'[a] = "idle" /\ queue' = queue
                    ELSE /\ pc'[a] = "cleanup_send"
                         /\ signal_json'[a] =
                               Some(to_string(disconnect_signal(a)))
         /\ \A r \in Addrs :
               ( /\ Len(queue'[r]) > Len(queue[r])
                 /\ queue'[r][Len(queue'[r])].text.signal_type
                       = "peer-disconnected" )
               => \E a \in Addrs \ {r} :
                     /\ pc[a] = "cleanup_send"
                     /\ iter[a] \ iter'[a] = {r}
                     /\ queue'[r] =
                           Append(queue[r], to_string(disconnect_signal(a)))
         /\ \A a \in Addrs :
               (pc[a] = "cleanup_send" /\ iter'[a] # iter[a]) =>
                 \E r \in iter[a] :
                     /\ iter'[a] = iter[a] \ {r}
                     /\ closed(r) \/ queue'[r] =
                           Append(queue[r], to_string(disconnect_signal(a)))
                     /\ \A o \in Addrs \ {r} : queue'[o] = queue[o]]_vars

\* C15 witness: in main.rs a client that relayed an ice-candidate to
\* another one has gone through cleanup_client: its entry is no longer in
\* the registry, and the other client, which it had not recorded as a
\* peer, holds the relay and no peer-disconnected signal.
C15_Witness ==
    /\ server = "main"
    /\ \E a \in Addrs : \E r \in Addrs \ {a} :
         /\ assigned_identity(a) \notin
                {assigned_identity(o) : o \in Addrs \ {a}}
         /\ pc[a] = "idle"
         /\ ~contains_key(clients, a)
         /\ contains_key(clients, r)
         /\ queue[r] # << >>
         /\ queue[r][1].text.sender = assigned_identity(a)
         /\ queue[r][1].text.signal_type = "ice-candidate"

\* C16: when handle_screen_share has set the sender's is_screen_sharing and
\* calls broadcast_to_peers, the registry lock the broadcast waits for is
\* not held by the waiting task itself, so that the lock can be granted,
\* the signal enqueued to the other clients and the handler return to the
\* receive loop.
C16_ScreenShareHandlerReturns ==
    \A a \in Addrs :
        ( /\ signal[a] # None
          /\ signal[a][1].signal_type
                \in {"screen-share-start", "screen-share-stop"}
          /\ pc[a] = "bcast_lock" )
        => ( /\ clients[a].is_screen_sharing
                  = (signal[a][1].signal_type = "screen-share-start")
             /\ lock # Some(a) )

\* C17: a broadcast sees the registry of one instant.  The entries its
\* loop sets out to visit are the other registered clients that satisfy
\* its predicate at the moment it takes the lock; from then to its last
\* enqueue no connection is registered or removed and no entry changes;
\* and what is left to visit is always what is left of that set.
C17_BroadcastSeesOneSnapshot ==
    [][\A S \in Addrs :
          /\ (pc[S] = "bcast_lock" /\ pc'[S] = "bcast_send")
                => clients' = clients /\ iter'[S] = recipients(S)
          /\ pc[S] = "bcast_send"
                => /\ clients' = clients
                   /\ iter[S] \subseteq recipients(S)
                   /\ iter'[S] \subseteq iter[S]
                   /\ \A r \in Addrs :
                         Len(queue'[r]) > Len(queue[r])
                            => r \in iter[S] \ iter'[S]
                   /\ pc'[S] # "bcast_send" => iter'[S] = {}]_vars

\* C17 witness: a broadcast has visited one of its two recipients and not
\* yet the other, while the visited one, whose stream has ended, waits for
\* the lock to remove its entry.
C17_Witness ==
    \E S \in Addrs : \E r1, r2 \in Addrs \ {S} :
        /\ r1 # r2
        /\ pc[S] = "bcast_send"
        /\ iter[S] = {r2}
        /\ recipients(S) = {r1, r2}
        /\ pc[r1] = "cleanup_lock"

\* C18: when a broadcast comes to a recipient whose channel is closed (its
\* forwarding task has ended, its entry is still registered) the send
\* fails and nothing else happens: the loop goes on with the recipients
\* that are left, each of which is enqueued the message, and after the
\* last one the handler returns to the receive loop of the sender, which
\* stays registered.
C18_ClosedQueueDoesNotAbortBroadcast ==
    [][\A S \in Addrs :
          (pc[S] = "bcast_send" /\ iter'[S] # iter[S]) =>
            \E r \in iter[S] :
               /\ iter'[S] = iter[S] \ {r}
               /\ IF closed(r) THEN queue' = queue
                  ELSE queue' = [queue EXCEPT ![r] =
                                    Append(@, signal_json[S][1])]
               /\ pc'[S] = IF iter[S] = {r} THEN "recv" ELSE "bcast_send"
               /\ clients' = clients
               /\ contains_key(clients, S)]_vars

\* C18 witness: a broadcast to two registered recipients has enqueued its
\* message to one of them and is left with the other, whose forwarding
\* task has ended while its connection is still in its receive loop: the
\* send that comes next is to a closed channel.
C18_Witness ==
    \E S \in Addrs : \E r1, r2 \in Addrs \ {S} :
        /\ r1 # r2
        /\ pc[S] = "bcast_send"
        /\ recipients(S) = {r1, r2}
        /\ iter[S] = {r1}
        /\ closed(r1) /\ pc[r1] = "recv"
        /\ ~closed(r2) /\ queue[r2] = << signal_json[S][1] >>

\* C19: registration never replaces an entry: when a connection registers
\* an address the registry already holds, the registration fails and the
\* entry, with its state and its outbound queue, stays as it was.
C19_RegistrationNeverReplaces ==
    [][\A a \in Addrs :
          ( /\ pc[a] = "register"
            /\ pc'[a] # "register"
            /\ contains_key(clients, a) )
          => ( /\ pc'[a] # "recv"
               /\ clients' = clients
               /\ queue'[a] = queue[a] )]_vars

\* C20: in server.rs whatever is enqueued to a client was sent by a task
\* whose own client is verified at the time of the broadcast: a client for
\* which no signature check has succeeded causes nothing to be enqueued
\* to anybody.
C20_UnverifiedSenderRelaysNothing ==
    [][server = "signaling" =>
         \A S \in Addrs : \A r \in Addrs :
            ( /\ pc[S] = "bcast_send"
              /\ iter'[S] # iter[S]
              /\ Len(queue'[r]) > Len(queue[r]) )
            => ( /\ contains_key(clients, S)
                 /\ clients[S].verified )]_vars

\* C22: in main.rs the connected_peers list of every registered client is
\* empty in every reachable state, so cleanup_client finds nobody to
\* notify: no task is ever in its loop of sends and no peer-disconnected
\* signal is ever in any client's queue.
C22_ConnectedPeersAlwaysEmpty ==
    server = "main" =>
        /\ \A a \in DOMAIN clients : clients[a].connected_peers = << >>
        /\ \A a \in Addrs :
              /\ pc[a] # "cleanup_send"
              /\ \A m \in Queued(a) :
                    m.text.signal_type # "peer-disconnected"

\* C22 witness: in main.rs a client that relayed a chat message to another
\* one has disconnected and been cleaned up; the client that is left is
\* registered with no peer recorded and holds the relay only.
C22_Witness ==
    /\ server = "main"
    /\ \E a \in Addrs : \E r \in Addrs \ {a} :
         /\ assigned_identity(a) \notin
                {assigned_identity(o) : o \in Addrs \ {a}}
         /\ pc[a] = "idle" /\ ~contains_key(clients, a)
         /\ pc[r] = "recv" /\ contains_key(clients, r)
         /\ clients[r].connected_peers = << >>
         /\ Len(queue[r]) = 1
         /\ queue[r][1].text.sender = assigned_identity(a)
         /\ queue[r][1].text.signal_type = "chat"

=============================================================================
